---- MODULE Spec2Model ----
(***************************************************************************)
(* Model of the task_assistant recurring-task scheduler                    *)
(* (custom_components/task_assistant/task.py).                             *)
(*                                                                         *)
(* A datetime is an integer number of hours: toordinal() * 24 + hour,      *)
(* where toordinal() is the proleptic Gregorian ordinal of the Python      *)
(* datetime module (0001-01-01 is day 1, a Monday).  An optional value is  *)
(* a sequence of length at most one: None is << >>, a value x is << x >>.  *)
(***************************************************************************)
EXTENDS Integers, Sequences, FiniteSets

VARIABLES
    rule,            \* config_entry.options: the recurrence rule of the task
    start_date,      \* Task._start_date
    last_completed,  \* Task._last_completed
    last_updated,    \* Task._last_updated (optional)
    due_date,        \* Task._due_date (optional)
    days,            \* Task._days (optional)
    overdue,         \* Task._overdue
    overdue_days,    \* Task._overdue_days (optional)
    attr_state,      \* Task._attr_state (optional)
    now,             \* the value helpers.now() returns
    op,              \* history: the last update, completion, restoration or service call
    err,             \* history: the exception the last operation raised, or "none"
    stored,          \* the last state of the entity the host holds (optional)
    restarts,        \* history: the number of restarts of the host so far
    repeated,        \* history: the last operation repeated an update_state at the same clock
    registry,        \* hass.data[DOMAIN][SENSOR_PLATFORM]: the entity ids registered
    pc,              \* where the task is in its life: construction, addition, removal
    nth_call         \* the last call of get_nth_weekday_of_month and its result

vars == << rule, start_date, last_completed, last_updated, due_date, days,
           overdue, overdue_days, attr_state, now, op, err, stored, restarts, repeated,
           registry, pc, nth_call >>

(***************************************************************************)
(* Bounds of the model.                                                    *)
(***************************************************************************)
MaxPeriod == 2
MaxInstants == 3
MaxYearSpan == 3
MaxRestarts == 1

(***************************************************************************)
(* Optional values.                                                        *)
(***************************************************************************)
None == << >>
Some(x) == << x >>
Val(o) == o[1]

Min(a, b) == IF a <= b THEN a ELSE b
Abs(a) == IF a < 0 THEN -a ELSE a

(***************************************************************************)
(* Calendar arithmetic of datetime.date / datetime.datetime.               *)
(***************************************************************************)
HoursPerDay == 24

IsLeap(year) == year % 4 = 0 /\ (year % 100 # 0 \/ year % 400 = 0)

DaysInMonth(year, month) ==
    IF month = 2 THEN (IF IsLeap(year) THEN 29 ELSE 28)
    ELSE IF month \in {4, 6, 9, 11} THEN 30 ELSE 31

DaysBeforeYear(year) ==
    LET y == year - 1 IN y * 365 + (y \div 4) - (y \div 100) + (y \div 400)

\* the days of the year before the first day of the month
DaysBeforeMonth(year, month) ==
    << 0, 31, 59, 90, 120, 151, 181, 212, 243, 273, 304, 334 >>[month]
    + (IF month > 2 /\ IsLeap(year) THEN 1 ELSE 0)

\* date(year, month, day).toordinal()
ToOrdinal(year, month, day) ==
    DaysBeforeYear(year) + DaysBeforeMonth(year, month) + day

\* date.fromordinal(n) as a record [year, month, day]
FromOrdinal(n) ==
    LET n0    == n - 1
        n400  == n0 \div 146097
        r400  == n0 % 146097
        n100  == r400 \div 36524
        r100  == r400 % 36524
        n4    == r100 \div 1461
        r4    == r100 % 1461
        n1    == r4 \div 365
        r1    == r4 % 365
        year  == n400 * 400 + 1 + n100 * 100 + n4 * 4 + n1
    IN  IF n1 = 4 \/ n100 = 4
        THEN [year |-> year - 1, month |-> 12, day |-> 31]
        ELSE LET month == CHOOSE m \in 1..12 :
                              /\ DaysBeforeMonth(year, m) <= r1
                              /\ r1 < DaysBeforeMonth(year, m) + DaysInMonth(year, m)
             IN  [year |-> year, month |-> month,
                  day |-> r1 - DaysBeforeMonth(year, month) + 1]

\* datetime(year, month, day, hour)
DateTime(year, month, day, hour) == ToOrdinal(year, month, day) * HoursPerDay + hour

OrdinalOf(dt) == dt \div HoursPerDay
\* datetime.time()
TimeOf(dt) == dt % HoursPerDay
\* datetime.date()
DateOf(dt) == FromOrdinal(OrdinalOf(dt))
YearOf(dt) == DateOf(dt).year
MonthOf(dt) == DateOf(dt).month
DayOf(dt) == DateOf(dt).day

\* date.weekday(): Monday is 0, Sunday is 6
Weekday(ordinal) == (ordinal + 6) % 7

\* dt + relativedelta(months=n): the day is clamped to the length of the month
AddMonths(dt, n) ==
    LET d     == DateOf(dt)
        total == d.month - 1 + n
        year  == d.year + (total \div 12)
        month == (total % 12) + 1
    IN  DateTime(year, month, Min(d.day, DaysInMonth(year, month)), TimeOf(dt))

\* dt + relativedelta(years=n): 29 February is clamped to 28 February
AddYears(dt, n) ==
    LET d    == DateOf(dt)
        year == d.year + n
    IN  DateTime(year, d.month, Min(d.day, DaysInMonth(year, d.month)), TimeOf(dt))

\* datetime.isoformat(): the fields the string spells out
IsoFormat(dt) == << YearOf(dt), MonthOf(dt), DayOf(dt), TimeOf(dt) >>
\* datetime.fromisoformat(s).replace(tzinfo=None)
FromIsoFormat(s) == DateTime(s[1], s[2], s[3], s[4])

(***************************************************************************)
(* Configuration values (constants.py) and the rules the model draws.      *)
(***************************************************************************)
TYPE_OPTIONS == {"after", "every", "scheduled"}
FREQUENCY_OPTIONS == {"hours", "days", "weeks", "months", "years"}
DAY_OPTIONS == 0..6
SCHEDULE_OPTIONS == {1, 2, 3, 4, 5, -1, -2, -3, -4}
DEFAULT_FREQUENCY == "days"
DEFAULT_PERIOD == 1
DEFAULT_SCHEDULE == 1
DEFAULT_SCHEDULE_DAY == 0

\* a frequency unit outside FREQUENCY_OPTIONS
InvalidFrequency == "minutes"
\* a rule kind outside TYPE_OPTIONS
InvalidType == "sometimes"
\* an ordinal outside SCHEDULE_OPTIONS
InvalidSchedule == 0
Frequencies == FREQUENCY_OPTIONS \cup {InvalidFrequency}
Periods == 1..MaxPeriod
Offsets == {-2, 0, 1}
ScheduleDays == {1, 2}

\* configured start dates: 2024-12-31 10:00 (a Tuesday)
StartDates == {DateTime(2024, 12, 31, 10)}

\* the instants at which operations happen, in hours relative to the start
\* date; a rule that recurs every few hours is observed over days, the other
\* rules over weeks and months
ShortClockOffsets == << 0, 6, 13, 31, 22, -30 >>
LongClockOffsets == << 0, 168, 965, 243, 500, -30 >>
ClockOffsets(r) ==
    IF r.type = "every" /\ r.frequency = "hours"
    THEN ShortClockOffsets ELSE LongClockOffsets
Instants(r) ==
    {r.start_date + ClockOffsets(r)[i] : i \in 1..Min(MaxInstants, Len(ClockOffsets(r)))}

\* the keys of config_entry.options that Task.__init__ reads
CONF_TYPE == "type"
CONF_FREQUENCY == "frequency"
CONF_PERIOD == "period"
CONF_START_DATE == "start_date"
CONF_SCHEDULE == "schedule"
CONF_SCHEDULE_DAY == "schedule_day"
\* constants.CONF_OFFSET: constants.py defines no such name
CONF_OFFSET == None
\* the key under which the options hold the offset in days
OffsetKey == "offset"
\* the keys of options that hold a whole rule
RuleKeys == {CONF_TYPE, CONF_FREQUENCY, CONF_PERIOD, CONF_START_DATE, CONF_SCHEDULE,
             CONF_SCHEDULE_DAY, OffsetKey}
\* the keys of options that hold a frequency and a period and nothing else
\* that Task.__init__ reads
PartialKeys == {CONF_FREQUENCY, CONF_PERIOD}

\* options that hold a whole rule; keys is the set of keys present
RuleOptions ==
    [type : TYPE_OPTIONS \ {"scheduled"}, frequency : Frequencies, period : Periods,
     schedule : {DEFAULT_SCHEDULE}, schedule_day : {DEFAULT_SCHEDULE_DAY},
     offset : Offsets, start_date : StartDates, keys : {RuleKeys}]
    \cup
    [type : {"scheduled"}, frequency : {DEFAULT_FREQUENCY}, period : {DEFAULT_PERIOD},
     schedule : SCHEDULE_OPTIONS \cup {InvalidSchedule}, schedule_day : ScheduleDays,
     offset : Offsets, start_date : StartDates, keys : {RuleKeys}]
    \cup
    [type : {"scheduled"}, frequency : {InvalidFrequency}, period : {DEFAULT_PERIOD},
     schedule : {DEFAULT_SCHEDULE}, schedule_day : {DEFAULT_SCHEDULE_DAY},
     offset : {0}, start_date : StartDates, keys : {RuleKeys}]
    \cup
    [type : {InvalidType}, frequency : {DEFAULT_FREQUENCY}, period : {DEFAULT_PERIOD},
     schedule : {DEFAULT_SCHEDULE}, schedule_day : {DEFAULT_SCHEDULE_DAY},
     offset : Offsets, start_date : StartDates, keys : {RuleKeys}]

\* config_entry.options that lack keys Task.__init__ reads: config.get
\* returns None for them; the field of a key that is not in keys is not part
\* of the options
PartialOptions ==
    [type : {InvalidType}, frequency : FREQUENCY_OPTIONS, period : {DEFAULT_PERIOD},
     schedule : {DEFAULT_SCHEDULE}, schedule_day : {DEFAULT_SCHEDULE_DAY},
     offset : {0}, start_date : StartDates, keys : {PartialKeys}]

Rules == RuleOptions \cup PartialOptions

\* config.get(key)
Get(options, key) == IF key \in options.keys THEN Some(options[key]) ELSE None

(***************************************************************************)
(* Results of calls that may raise.                                        *)
(***************************************************************************)
Raise(exc) == [raised |-> exc, value |-> None]
Return(v) == [raised |-> "none", value |-> v]

(***************************************************************************)
(* Task.get_nth_weekday_of_month                                           *)
(***************************************************************************)
\* a variant that steps nth weeks, not nth - 1, from the first occurrence
get_nth_weekday_of_month_one_week_late(time, year, month, weekday, nth) ==
    LET first_day        == ToOrdinal(year, month, 1)
        days_to_weekday  == (weekday - Weekday(first_day) + 7) % 7
        first_occurrence == first_day + days_to_weekday
        nth_occurrence   == first_occurrence + 7 * nth
    IN  IF FromOrdinal(nth_occurrence).month # month
        THEN None
        ELSE Some(nth_occurrence * HoursPerDay + time)

get_nth_weekday_of_month(time, year, month, weekday, nth) ==
    LET first_day        == ToOrdinal(year, month, 1)
        days_to_weekday  == (weekday - Weekday(first_day) + 7) % 7
        first_occurrence == first_day + days_to_weekday
        nth_occurrence   == first_occurrence + 7 * (nth - 1)
    IN  IF FromOrdinal(nth_occurrence).month # month
        THEN None
        ELSE Some(nth_occurrence * HoursPerDay + time)

(***************************************************************************)
(* Task._add_period_offset: start_date is optional, as the caller may pass *)
(* None; adding a timedelta to None raises TypeError.                      *)
(***************************************************************************)
\* a variant that adds days where weeks are asked for
add_period_offset_weeks_as_days(start, frequency, period) ==
    IF frequency \notin FREQUENCY_OPTIONS THEN Raise("ValueError")
    ELSE IF start = None THEN Raise("TypeError")
    ELSE IF frequency = "hours" THEN Return(Some(Val(start) + period))
    ELSE IF frequency = "days" THEN Return(Some(Val(start) + period * HoursPerDay))
    ELSE IF frequency = "weeks" THEN Return(Some(Val(start) + period * HoursPerDay))
    ELSE IF frequency = "months" THEN Return(Some(AddMonths(Val(start), period)))
    ELSE Return(Some(AddYears(Val(start), period)))

add_period_offset(start, frequency, period) ==
    IF frequency \notin FREQUENCY_OPTIONS THEN Raise("ValueError")
    ELSE IF start = None THEN Raise("TypeError")
    ELSE IF frequency = "hours" THEN Return(Some(Val(start) + period))
    ELSE IF frequency = "days" THEN Return(Some(Val(start) + period * HoursPerDay))
    ELSE IF frequency = "weeks" THEN Return(Some(Val(start) + period * 7 * HoursPerDay))
    ELSE IF frequency = "months" THEN Return(Some(AddMonths(Val(start), period)))
    ELSE Return(Some(AddYears(Val(start), period)))

(***************************************************************************)
(* Task.get_next_due_date                                                  *)
(*                                                                         *)
(* Its result is a record: the exception raised or "none", the value       *)
(* returned, the anchor the "every" loop leaves in self._start_date, and   *)
(* the last call of get_nth_weekday_of_month the "scheduled" loop made.    *)
(***************************************************************************)
NthCall(time, year, month, weekday, nth) ==
    [time |-> time, year |-> year, month |-> month, weekday |-> weekday, nth |-> nth,
     result |-> get_nth_weekday_of_month(time, year, month, weekday, nth), done |-> TRUE]

NoCall ==
    [time |-> 0, year |-> 1, month |-> 1, weekday |-> 0, nth |-> 1,
     result |-> None, done |-> FALSE]

DueResult(o, anchor, call) ==
    [raised |-> o.raised, value |-> o.value, start_date |-> anchor, call |-> call]

\* a variant that shifts by the offset in hours
apply_offset_in_hours(r, offset, anchor, call) ==
    IF r.raised # "none"
    THEN DueResult(r, anchor, call)
    ELSE DueResult(add_period_offset(r.value, "hours", offset), anchor, call)

\* the last statement: due_date = self._add_period_offset(due_date, "days", self._offset)
apply_offset(r, offset, anchor, call) ==
    IF r.raised # "none"
    THEN DueResult(r, anchor, call)
    ELSE DueResult(add_period_offset(r.value, "days", offset), anchor, call)

\* the "every" loop: advance the anchor while last_completed is after it
RECURSIVE every_loop(_, _, _, _)
RECURSIVE every_step(_, _, _, _, _)
\* a variant that also advances an anchor equal to last_completed
every_loop_while_not_before(anchor, completed, frequency, period) ==
    IF completed >= anchor
    THEN every_step(add_period_offset(Some(anchor), frequency, period),
                    anchor, completed, frequency, period)
    ELSE [raised |-> "none", start_date |-> anchor]

every_loop(anchor, completed, frequency, period) ==
    IF completed > anchor
    THEN every_step(add_period_offset(Some(anchor), frequency, period),
                    anchor, completed, frequency, period)
    ELSE [raised |-> "none", start_date |-> anchor]

\* a variant that moves the anchor to the completion time
every_step_to_completion(r, anchor, completed, frequency, period) ==
    IF r.raised # "none"
    THEN [raised |-> r.raised, start_date |-> anchor]
    ELSE every_loop(completed, completed, frequency, period)

\* a variant that leaves the loop after one pass
every_step_once(r, anchor, completed, frequency, period) ==
    IF r.raised # "none"
    THEN [raised |-> r.raised, start_date |-> anchor]
    ELSE [raised |-> "none", start_date |-> Val(r.value)]

\* self._start_date = self._add_period_offset(self._start_date, ...), and loop
every_step(r, anchor, completed, frequency, period) ==
    IF r.raised # "none"
    THEN [raised |-> r.raised, start_date |-> anchor]
    ELSE every_loop(Val(r.value), completed, frequency, period)

\* a variant that leaves the anchor one period later, at the base due date
every_due_anchor_at_due(l, self) ==
    IF l.raised # "none"
    THEN DueResult(Raise(l.raised), l.start_date, NoCall)
    ELSE apply_offset(add_period_offset(Some(l.start_date), self.frequency, self.period),
                      self.offset,
                      IF self.frequency \in FREQUENCY_OPTIONS
                      THEN Val(add_period_offset(Some(l.start_date), self.frequency,
                                                 self.period).value)
                      ELSE l.start_date,
                      NoCall)

\* the "every" branch after its loop l
every_due(l, self) ==
    IF l.raised # "none"
    THEN DueResult(Raise(l.raised), l.start_date, NoCall)
    ELSE apply_offset(add_period_offset(Some(l.start_date), self.frequency, self.period),
                      self.offset, l.start_date, NoCall)

\* the "scheduled" loop: move to the next month while the occurrence found is
\* not after the clock; its value is the last call it made
RECURSIVE scheduled_loop(_, _)
\* a variant that accepts an occurrence equal to the clock
scheduled_loop_until_not_before(call, clock) ==
    IF call.result # None /\ Val(call.result) < clock
    THEN scheduled_loop(
             NthCall(call.time,
                     call.year + (IF call.month = 12 THEN 1 ELSE 0),
                     IF call.month = 12 THEN 1 ELSE call.month + 1,
                     call.weekday, call.nth),
             clock)
    ELSE call

scheduled_loop(call, clock) ==
    IF call.result # None /\ Val(call.result) <= clock
    THEN scheduled_loop(
             NthCall(call.time,
                     call.year + (IF call.month = 12 THEN 1 ELSE 0),
                     IF call.month = 12 THEN 1 ELSE call.month + 1,
                     call.weekday, call.nth),
             clock)
    ELSE call

\* the "scheduled" branch after its loop, which ended with the call last
scheduled_due(last, self) ==
    apply_offset(Return(last.result), self.offset, self.start_date, last)

\* self: the fields of the task; clock: the value of helpers.now()
get_next_due_date(self, clock) ==
    IF self.type = "after"
    THEN apply_offset(add_period_offset(Some(self.last_completed),
                                        self.frequency, self.period),
                      self.offset, self.start_date, NoCall)
    ELSE IF self.type = "every"
    THEN every_due(every_loop(self.start_date, self.last_completed,
                              self.frequency, self.period), self)
    ELSE IF self.type = "scheduled"
    THEN scheduled_due(
             scheduled_loop(NthCall(TimeOf(self.start_date),
                                    YearOf(self.last_completed),
                                    MonthOf(self.last_completed),
                                    self.schedule_day, self.schedule),
                            clock),
             self)
    ELSE apply_offset(Return(Some(clock)), self.offset, self.start_date, NoCall)

(***************************************************************************)
(* The state of the task.                                                  *)
(***************************************************************************)
\* the task as get_next_due_date reads it
Self ==
    [type |-> rule.type, frequency |-> rule.frequency, period |-> rule.period,
     schedule |-> rule.schedule, schedule_day |-> rule.schedule_day,
     offset |-> rule.offset, start_date |-> start_date,
     last_completed |-> last_completed]

\* the fields of the task
task_vars == << start_date, last_completed, last_updated, due_date, days,
                overdue, overdue_days, attr_state >>

\* Task.extra_state_attributes together with the state, as the host stores
\* them: datetimes are written in ISO format
StoredState ==
    [state |-> attr_state,
     last_completed |-> Some(IsoFormat(last_completed)),
     last_updated |-> IF last_updated = None THEN None
                      ELSE Some(IsoFormat(Val(last_updated))),
     overdue |-> overdue,
     overdue_days |-> overdue_days,
     due_date |-> IF due_date = None THEN None ELSE Some(IsoFormat(Val(due_date))),
     start_date |-> Some(IsoFormat(start_date))]

\* the fields of a task that does not exist: nothing holds a value
NoTask ==
    /\ days = None
    /\ due_date = None
    /\ last_updated = None
    /\ overdue = FALSE
    /\ overdue_days = None
    /\ attr_state = None
    /\ start_date = 0
    /\ last_completed = 0

\* the task exists: Task.__init__ has run to its end and the host has not
\* removed the task
TaskExists == pc \in {"constructed", "registered", "added"}

\* the host has loaded the entry of the task and has not yet called
\* async_setup_entry: no task exists, no state is stored, nothing is registered
Init ==
    /\ rule \in Rules
    /\ NoTask
    /\ now \in Instants(rule)
    /\ op = "none"
    /\ err = "none"
    /\ stored = None
    /\ restarts = 0
    /\ repeated = FALSE
    /\ registry = {}
    /\ pc = "unconstructed"
    /\ nth_call = NoCall

(***************************************************************************)
(* async_setup_entry (sensor.py): Task(config_entry).  Task.__init__ reads *)
(* the options statement by statement; int(None) and fromisoformat(None)   *)
(* raise TypeError, the read of a name that constants does not define      *)
(* raises AttributeError.  When it raises no task exists and no entity is  *)
(* added.                                                                  *)
(***************************************************************************)
\* the exception Task.__init__ ends with, "none" when it runs to its end;
\* conf_offset is the value of constants.CONF_OFFSET, None when the name is
\* not defined
init_outcome(options, conf_offset) ==
    IF Get(options, CONF_SCHEDULE) = None THEN "TypeError"
    ELSE IF Get(options, CONF_SCHEDULE_DAY) = None THEN "TypeError"
    ELSE IF conf_offset = None THEN "AttributeError"
    ELSE IF Get(options, Val(conf_offset)) = None THEN "TypeError"
    ELSE IF Get(options, CONF_START_DATE) = None THEN "TypeError"
    ELSE "none"

\* Task.__init__ run on the options of the entry
construct(conf_offset) ==
    /\ op' = "init"
    /\ err' = init_outcome(rule, conf_offset)
    /\ repeated' = FALSE
    /\ IF err' = "none"
       THEN /\ pc' = "constructed"
            /\ days' = None
            /\ due_date' = None
            /\ last_updated' = None
            /\ overdue' = FALSE
            /\ overdue_days' = None
            /\ attr_state' = days'
            /\ start_date' = rule.start_date
            /\ last_completed' = start_date'
       ELSE /\ pc' = "failed"
            /\ UNCHANGED task_vars
    /\ UNCHANGED << rule, now, stored, restarts, registry, nth_call >>

\* Task(config_entry) with constants.py as it is
Task__init__ ==
    /\ pc = "unconstructed"
    /\ construct(CONF_OFFSET)

\* Task(config_entry) were constants.CONF_OFFSET the key of the offset
Task__init__with_offset_key ==
    /\ pc = "unconstructed"
    /\ construct(Some(OffsetKey))

async_setup_entry ==
    \/ Task__init__
    \/ Task__init__with_offset_key

(***************************************************************************)
(* helpers.now(): the clock moves on to a later instant.                   *)
(***************************************************************************)
Tick ==
    /\ \E t \in Instants(rule) : t > now /\ now' = t
    /\ UNCHANGED << rule, task_vars, op, err, stored, restarts, repeated, registry,
                    pc, nth_call >>

(***************************************************************************)
(* Task.complete_task                                                      *)
(***************************************************************************)
\* a variant that also stamps the task as updated
complete_task_stamping_update ==
    /\ TaskExists
    /\ last_completed' = now
    /\ last_updated' = Some(now)
    /\ op' = "complete_task"
    /\ err' = "none"
    /\ repeated' = FALSE
    /\ UNCHANGED << rule, start_date, due_date, days, overdue, overdue_days,
                    attr_state, now, stored, restarts, registry, pc, nth_call >>

complete_task ==
    /\ TaskExists
    /\ last_completed' = now
    /\ op' = "complete_task"
    /\ err' = "none"
    /\ repeated' = FALSE
    /\ UNCHANGED << rule, start_date, last_updated, due_date, days, overdue,
                    overdue_days, attr_state, now, stored, restarts, registry, pc,
                    nth_call >>

(***************************************************************************)
(* Task.update_state                                                       *)
(***************************************************************************)
\* a variant that rounds towards zero
days_between_truncated(due, updated) ==
    IF due >= updated
    THEN (due - updated) \div HoursPerDay
    ELSE -((updated - due) \div HoursPerDay)

\* overdue_time.days: the whole days of due - updated, rounded down
days_between(due, updated) == (due - updated) \div HoursPerDay

\* self._overdue
is_overdue(d) == d < 0

\* self._overdue_days
overdue_days_of(d) == IF d > -1 THEN 0 ELSE Abs(d)

\* update_state once get_next_due_date has ended with r
update_with(r) ==
    /\ last_updated' = Some(now)
    /\ start_date' = r.start_date
    /\ nth_call' = IF r.call.done THEN r.call ELSE nth_call
    /\ op' = "update_state"
    /\ err' = r.raised
    /\ repeated' = (op = "update_state" /\ last_updated = Some(now))
    /\ IF r.raised # "none"
       THEN UNCHANGED << due_date, days, attr_state, overdue, overdue_days >>
       ELSE /\ due_date' = r.value
            /\ IF r.value # None
               THEN /\ days' = Some(days_between(Val(r.value), now))
                    /\ attr_state' = days'
                    /\ overdue' = is_overdue(Val(days'))
                    /\ overdue_days' = Some(overdue_days_of(Val(days')))
               ELSE /\ days' = None
                    /\ attr_state' = None
                    /\ overdue' = FALSE
                    /\ overdue_days' = None
    /\ UNCHANGED << rule, last_completed, now, stored, restarts, registry, pc >>

update_state ==
    /\ TaskExists
    /\ update_with(get_next_due_date(Self, now))

\* Task.async_update with hass.is_running: the host asks for an update before
\* it adds the task (sensor.py) and polls the task once it is added
async_update ==
    /\ pc \in {"constructed", "added"}
    /\ update_state

(***************************************************************************)
(* Task.async_added_to_hass.  The coroutine awaits the host twice: it puts *)
(* the task into the registry when the first await has returned, and it    *)
(* restores the stored state when the second await has returned a state.   *)
(* Other callbacks of the host run while it waits.  Nothing of the task    *)
(* changes before the first await returns, so the call and the return of   *)
(* the first await are one step.                                           *)
(***************************************************************************)
\* a variant that restores last_updated from the stored state
restore_state_keeping_last_updated(s) ==
    /\ last_updated' = IF s.last_updated # None
                       THEN Some(FromIsoFormat(Val(s.last_updated)))
                       ELSE None
    /\ attr_state' = s.state
    /\ due_date' = IF s.start_date # None
                   THEN Some(FromIsoFormat(Val(s.start_date)))
                   ELSE IF s.due_date # None
                   THEN Some(FromIsoFormat(Val(s.due_date)))
                   ELSE due_date
    /\ start_date' = IF s.last_completed # None
                     THEN FromIsoFormat(Val(s.last_completed))
                     ELSE start_date
    /\ overdue' = s.overdue
    /\ overdue_days' = s.overdue_days
    /\ UNCHANGED << days, last_completed >>

\* the statements under "if state is not None": the due date is read from
\* the due_date attribute and then from the start_date attribute, the start
\* date from the last_completed attribute; an attribute that is None leaves
\* its field as it is
restore_state(s) ==
    /\ last_updated' = None
    /\ attr_state' = s.state
    /\ due_date' = IF s.start_date # None
                   THEN Some(FromIsoFormat(Val(s.start_date)))
                   ELSE IF s.due_date # None
                   THEN Some(FromIsoFormat(Val(s.due_date)))
                   ELSE due_date
    /\ start_date' = IF s.last_completed # None
                     THEN FromIsoFormat(Val(s.last_completed))
                     ELSE start_date
    /\ overdue' = s.overdue
    /\ overdue_days' = s.overdue_days
    /\ UNCHANGED << days, last_completed >>

\* the entity id the task is registered under; the services are called with it
\* before the task is registered, while it is, and after it is removed
TaskEntityId == "sensor.task"
EntityIds == {TaskEntityId}

\* await super().async_added_to_hass() has returned: the task is registered
\* and awaits async_get_last_state()
add_register ==
    /\ pc = "constructed"
    /\ registry' = registry \cup {TaskEntityId}
    /\ pc' = "registered"
    /\ UNCHANGED << rule, task_vars, now, op, err, stored, restarts, repeated,
                    nth_call >>

\* async_get_last_state() has returned None: nothing is restored
add_without_stored_state ==
    /\ pc = "registered"
    /\ stored = None
    /\ pc' = "added"
    /\ UNCHANGED << rule, task_vars, now, op, err, stored, restarts, repeated,
                    registry, nth_call >>

\* async_get_last_state() has returned the state the host holds
add_with_stored_state ==
    /\ pc = "registered"
    /\ stored # None
    /\ restore_state(Val(stored))
    /\ pc' = "added"
    /\ op' = "async_added_to_hass"
    /\ err' = "none"
    /\ repeated' = FALSE
    /\ UNCHANGED << rule, now, stored, restarts, registry, nth_call >>

async_added_to_hass ==
    \/ add_register
    \/ add_without_stored_state
    \/ add_with_stored_state

(***************************************************************************)
(* Task.async_will_remove_from_hass: the entry of the task is deleted from *)
(* the registry.                                                           *)
(***************************************************************************)
async_will_remove_from_hass ==
    /\ pc = "added"
    /\ registry' = registry \ {TaskEntityId}
    /\ pc' = "removed"
    /\ UNCHANGED << rule, task_vars, now, op, err, stored, restarts, repeated,
                    nth_call >>

(***************************************************************************)
(* The host stops and starts again.  It holds the state and the attributes *)
(* of the task as its last update wrote them; in the new run no task       *)
(* exists and nothing is registered until async_setup_entry is called.     *)
(***************************************************************************)
host_restart ==
    /\ pc = "added"
    /\ op = "update_state"
    /\ err = "none"
    /\ restarts < MaxRestarts
    /\ stored' = Some(StoredState)
    /\ restarts' = restarts + 1
    /\ registry' = {}
    /\ pc' = "unconstructed"
    /\ days' = None
    /\ due_date' = None
    /\ last_updated' = None
    /\ overdue' = FALSE
    /\ overdue_days' = None
    /\ attr_state' = None
    /\ start_date' = 0
    /\ last_completed' = 0
    /\ op' = "none"
    /\ err' = "none"
    /\ repeated' = FALSE
    /\ nth_call' = NoCall
    /\ UNCHANGED << rule, now >>

(***************************************************************************)
(* The service handlers (__init__.py).  Each looks the entity up in the    *)
(* registry; the KeyError of an entity id that is not registered is caught *)
(* and logged, and the handler returns.                                    *)
(***************************************************************************)
\* except KeyError: LOGGER.error(...)
entity_not_found(handler) ==
    /\ op' = handler
    /\ err' = "none"
    /\ repeated' = FALSE
    /\ UNCHANGED << rule, task_vars, now, stored, restarts, registry, pc, nth_call >>

\* a variant that refreshes the task without looking it up
handle_update_state_without_lookup(entity_id) ==
    IF entity_id = TaskEntityId /\ TaskExists
    THEN update_state
    ELSE entity_not_found("handle_update_state")

\* handle_update_state: entity.update_state() for the entity found; what
\* update_state raises is not caught
handle_update_state(entity_id) ==
    IF entity_id \in registry
    THEN update_state
    ELSE entity_not_found("handle_update_state")

\* handle_complete_task: for the entity found it assigns to
\* entity.last_completed, a property of Task that has no setter, which raises
\* AttributeError: the handler ends there and its call of update_state is
\* never reached
handle_complete_task(entity_id) ==
    IF entity_id \in registry
    THEN /\ op' = "handle_complete_task"
         /\ err' = "AttributeError"
         /\ repeated' = FALSE
         /\ UNCHANGED << rule, task_vars, now, stored, restarts, registry, pc,
                         nth_call >>
    ELSE entity_not_found("handle_complete_task")

Next ==
    \/ Tick
    \/ async_setup_entry
    \/ complete_task
    \/ async_update
    \/ async_added_to_hass
    \/ async_will_remove_from_hass
    \/ host_restart
    \/ \E entity_id \in EntityIds : handle_update_state(entity_id)
    \/ \E entity_id \in EntityIds : handle_complete_task(entity_id)

Spec == Init /\ [][Next]_vars

(***************************************************************************)
(* get_nth_weekday_of_month on its own: the arguments are drawn at the     *)
(* start and the function is applied to them.                              *)
(***************************************************************************)
NthYears == {YearOf(s) + k : s \in StartDates, k \in 0..MaxYearSpan}
NthTimes == {0} \cup {TimeOf(s) : s \in StartDates}

InitNth ==
    /\ rule = CHOOSE r \in RuleOptions : r.type = "scheduled"
    /\ NoTask
    /\ now = rule.start_date
    /\ op = "none"
    /\ err = "none"
    /\ stored = None
    /\ restarts = 0
    /\ repeated = FALSE
    /\ registry = {}
    /\ pc = "unconstructed"
    /\ \E time \in NthTimes, year \in NthYears, month \in 1..12,
          weekday \in DAY_OPTIONS, nth \in SCHEDULE_OPTIONS :
          nth_call = [time |-> time, year |-> year, month |-> month,
                      weekday |-> weekday, nth |-> nth,
                      result |-> None, done |-> FALSE]

ApplyNth ==
    /\ ~nth_call.done
    /\ nth_call' = NthCall(nth_call.time, nth_call.year, nth_call.month,
                           nth_call.weekday, nth_call.nth)
    /\ UNCHANGED << rule, task_vars, now, op, err, stored, restarts, repeated,
                    registry, pc >>

NextNth == ApplyNth

SpecNth == InitNth /\ [][NextNth]_vars

(***************************************************************************)
(* Task.get_next_due_date statement by statement: each pass through a loop *)
(* is a step.  op is the position in the method, start_date the anchor the *)
(* "every" loop moves, nth_call the last call of get_nth_weekday_of_month  *)
(* and due_date the local variable due_date.  The method runs              *)
(* synchronously, so a step that can be taken is taken.                    *)
(***************************************************************************)
\* the offset is applied after the loops have ended: the loops are run for the
\* rules without one
LoopRules == {r \in RuleOptions : r.offset = 0}

InitLoop ==
    /\ rule \in LoopRules
    /\ start_date = rule.start_date
    /\ last_completed \in Instants(rule)
    /\ now \in Instants(rule)
    /\ due_date = None
    /\ days = None
    /\ last_updated = None
    /\ overdue = FALSE
    /\ overdue_days = None
    /\ attr_state = None
    /\ op = "get_next_due_date"
    /\ err = "none"
    /\ stored = None
    /\ restarts = 0
    /\ repeated = FALSE
    /\ registry = {}
    /\ pc = "constructed"
    /\ nth_call = NoCall

loop_frame == << rule, last_completed, last_updated, days, overdue, overdue_days,
                 attr_state, now, stored, restarts, repeated, registry, pc >>

\* the statement of a branch ended with r: an exception ends the method
branch_result(r) ==
    /\ err' = r.raised
    /\ op' = IF r.raised # "none" THEN "returned" ELSE "offset"
    /\ due_date' = IF r.raised # "none" THEN due_date ELSE r.value

\* due_date = helpers.now() and the choice of the branch
enter_branch ==
    /\ op = "get_next_due_date"
    /\ IF rule.type = "after"
       THEN /\ branch_result(add_period_offset(Some(last_completed),
                                               rule.frequency, rule.period))
            /\ UNCHANGED nth_call
       ELSE IF rule.type = "every"
       THEN /\ op' = "every_loop"
            /\ due_date' = Some(now)
            /\ UNCHANGED << err, nth_call >>
       ELSE IF rule.type = "scheduled"
       THEN /\ op' = "scheduled_loop"
            /\ nth_call' = NthCall(TimeOf(start_date), YearOf(last_completed),
                                   MonthOf(last_completed),
                                   rule.schedule_day, rule.schedule)
            /\ due_date' = nth_call'.result
            /\ UNCHANGED err
       ELSE /\ op' = "offset"
            /\ due_date' = Some(now)
            /\ UNCHANGED << err, nth_call >>
    /\ UNCHANGED << start_date, loop_frame >>

\* the statement of the "every" loop body ended with r
every_body_result(r) ==
    /\ err' = r.raised
    /\ op' = IF r.raised # "none" THEN "returned" ELSE "every_loop"
    /\ start_date' = IF r.raised # "none" THEN start_date ELSE Val(r.value)

\* one pass through the "every" loop
every_loop_body ==
    /\ op = "every_loop"
    /\ last_completed > start_date
    /\ every_body_result(add_period_offset(Some(start_date), rule.frequency, rule.period))
    /\ UNCHANGED << due_date, nth_call, loop_frame >>

\* the "every" loop ends; due_date = self._add_period_offset(self._start_date, ...)
every_loop_exit ==
    /\ op = "every_loop"
    /\ ~(last_completed > start_date)
    /\ branch_result(add_period_offset(Some(start_date), rule.frequency, rule.period))
    /\ UNCHANGED << start_date, nth_call, loop_frame >>

\* a variant that passes from December to January of the same year
scheduled_loop_body_year_kept ==
    /\ op = "scheduled_loop"
    /\ due_date # None
    /\ Val(due_date) <= now
    /\ nth_call' = NthCall(nth_call.time, nth_call.year,
                           IF nth_call.month = 12 THEN 1 ELSE nth_call.month + 1,
                           nth_call.weekday, nth_call.nth)
    /\ due_date' = nth_call'.result
    /\ UNCHANGED << op, err, start_date, loop_frame >>

\* one pass through the "scheduled" loop: the next month
scheduled_loop_body ==
    /\ op = "scheduled_loop"
    /\ due_date # None
    /\ Val(due_date) <= now
    /\ nth_call' = NthCall(nth_call.time,
                           nth_call.year + (IF nth_call.month = 12 THEN 1 ELSE 0),
                           IF nth_call.month = 12 THEN 1 ELSE nth_call.month + 1,
                           nth_call.weekday, nth_call.nth)
    /\ due_date' = nth_call'.result
    /\ UNCHANGED << op, err, start_date, loop_frame >>

\* the "scheduled" loop ends
scheduled_loop_exit ==
    /\ op = "scheduled_loop"
    /\ ~(due_date # None /\ Val(due_date) <= now)
    /\ op' = "offset"
    /\ UNCHANGED << due_date, err, start_date, nth_call, loop_frame >>

\* the last statement ended with r
offset_result(r) ==
    /\ err' = r.raised
    /\ due_date' = IF r.raised # "none" THEN due_date ELSE r.value

\* due_date = self._add_period_offset(due_date, "days", self._offset); return
return_with_offset ==
    /\ op = "offset"
    /\ offset_result(add_period_offset(due_date, "days", rule.offset))
    /\ op' = "returned"
    /\ UNCHANGED << start_date, nth_call, loop_frame >>

NextLoop ==
    \/ enter_branch
    \/ every_loop_body
    \/ every_loop_exit
    \/ scheduled_loop_body
    \/ scheduled_loop_exit
    \/ return_with_offset

SpecLoop == InitLoop /\ [][NextLoop]_vars /\ WF_vars(NextLoop)

(***************************************************************************)
(* Notions the properties are stated with.                                 *)
(***************************************************************************)
FixedUnits == {"hours", "days", "weeks"}

\* the length in hours of a unit of fixed length
UnitHours(unit) ==
    IF unit = "hours" THEN 1 ELSE IF unit = "days" THEN HoursPerDay ELSE 7 * HoursPerDay

\* a lower bound in hours of the length of any unit
MinUnitHours(unit) ==
    IF unit \in FixedUnits THEN UnitHours(unit)
    ELSE IF unit = "months" THEN 28 * HoursPerDay ELSE 365 * HoursPerDay

\* dt + n units
PeriodLater(dt, unit, n) ==
    IF unit \in FixedUnits THEN dt + n * UnitHours(unit)
    ELSE IF unit = "months" THEN AddMonths(dt, n) ELSE AddYears(dt, n)

\* the k-th element of the sequence start, start + period, (start + period) + period, ...
RECURSIVE AnchorAt(_, _, _, _)
AnchorAt(start, unit, period, k) ==
    IF k = 0 THEN start
    ELSE PeriodLater(AnchorAt(start, unit, period, k - 1), unit, period)

\* the periods that can have passed between start and completed, and one more
AnchorIndexes(start, completed, unit) ==
    0..((IF completed > start THEN (completed - start) \div MinUnitHours(unit) ELSE 0) + 1)

\* the last operation on the task was update_state
Refreshed == op = "update_state"

\* async_added_to_hass has restored a stored state into the task
Restored == stored # None /\ pc \in {"added", "removed"}

(***************************************************************************)
(* C1: for rule kind "after" with a recognized frequency unit, every       *)
(* refresh succeeds and sets due_date to last_completed + period units +   *)
(* offset days, whatever start_date and the clock are.                     *)
(***************************************************************************)
C1_AfterCompletionDue ==
    (Refreshed /\ rule.type = "after" /\ rule.frequency \in FREQUENCY_OPTIONS)
    => /\ err = "none"
       /\ due_date = Some(PeriodLater(last_completed, rule.frequency, rule.period)
                          + rule.offset * HoursPerDay)

\* a refresh of an "after" task some time after it was completed
C1_Witness ==
    /\ Refreshed
    /\ rule.type = "after"
    /\ rule.frequency = "weeks"
    /\ rule.offset # 0
    /\ last_completed > rule.start_date
    /\ last_updated # None
    /\ Val(last_updated) > last_completed
    /\ due_date = Some(last_completed + rule.period * 7 * HoursPerDay
                       + rule.offset * HoursPerDay)

(***************************************************************************)
(* C2 as claimed: for rule kind "every" with offset 0 and last_completed   *)
(* not before start_date, on the cadence or off it, a refresh returns the  *)
(* smallest start_date + k * period (k >= 0) strictly after                *)
(* last_completed.                                                         *)
(***************************************************************************)
C2_SmallestAnchorAfterCompletion ==
    [][ ( /\ update_state
          /\ rule.type = "every"
          /\ rule.frequency \in FREQUENCY_OPTIONS
          /\ rule.offset = 0
          /\ last_completed >= start_date )
        => \E k \in AnchorIndexes(start_date, last_completed, rule.frequency) :
              /\ due_date' = Some(PeriodLater(start_date, rule.frequency, k * rule.period))
              /\ Val(due_date') > last_completed
              /\ \/ k = 0
                 \/ PeriodLater(start_date, rule.frequency, (k - 1) * rule.period)
                        <= last_completed
      ]_vars

(***************************************************************************)
(* C2 as amended: under the same conditions a refresh returns A + period,  *)
(* where A is the first element not before last_completed of the sequence  *)
(* start_date, start_date + period, (start_date + period) + period, ...    *)
(* That is the smallest element strictly after last_completed only when    *)
(* last_completed is itself an element of the sequence.                    *)
(***************************************************************************)
C2_DueOnePeriodAfterCaughtUpAnchor ==
    [][ ( /\ update_state
          /\ rule.type = "every"
          /\ rule.frequency \in FREQUENCY_OPTIONS
          /\ rule.offset = 0
          /\ last_completed >= start_date )
        => \E k \in AnchorIndexes(start_date, last_completed, rule.frequency) :
              /\ AnchorAt(start_date, rule.frequency, rule.period, k) >= last_completed
              /\ \/ k = 0
                 \/ AnchorAt(start_date, rule.frequency, rule.period, k - 1)
                        < last_completed
              /\ due_date' = Some(AnchorAt(start_date, rule.frequency, rule.period, k + 1))
              /\ start_date' = AnchorAt(start_date, rule.frequency, rule.period, k)
      ]_vars

\* a refresh of an "every" task completed between two anchors: the due date
\* is the second anchor after the completion
C2_Witness ==
    /\ Refreshed
    /\ err = "none"
    /\ rule.type = "every"
    /\ rule.frequency = "days"
    /\ rule.offset = 0
    /\ restarts = 0
    /\ last_completed > rule.start_date
    /\ (last_completed - rule.start_date) % (rule.period * HoursPerDay) # 0
    /\ start_date > last_completed
    /\ start_date - last_completed < rule.period * HoursPerDay
    /\ due_date = Some(start_date + rule.period * HoursPerDay)

(***************************************************************************)
(* C3: for rule kind "every" with a unit of fixed length, as long as the   *)
(* task is only completed and refreshed, every due date lies a whole       *)
(* number of periods after the configured start date, once the offset is   *)
(* taken off.                                                              *)
(***************************************************************************)
C3_CadenceLockedToAnchor ==
    ( /\ rule.type = "every"
      /\ rule.frequency \in FixedUnits
      /\ ~Restored
      /\ due_date # None )
    => (Val(due_date) - rule.offset * HoursPerDay - rule.start_date)
           % (rule.period * UnitHours(rule.frequency)) = 0

\* a due date produced after a completion off the cadence, with an offset
C3_Witness ==
    /\ Refreshed
    /\ rule.type = "every"
    /\ rule.frequency = "weeks"
    /\ rule.period = 2
    /\ rule.offset # 0
    /\ restarts = 0
    /\ (last_completed - rule.start_date) % (rule.period * 7 * HoursPerDay) # 0
    /\ due_date # None
    /\ Val(due_date) > last_completed + rule.period * 7 * HoursPerDay

(***************************************************************************)
(* The occurrences of a weekday in a month, counted from either end.       *)
(***************************************************************************)
MonthOccurrences(year, month, weekday) ==
    {d \in 1..DaysInMonth(year, month) : Weekday(ToOrdinal(year, month, d)) = weekday}

\* the n-th occurrence counted from the first day of the month, if there is one
NthFromStart(time, year, month, weekday, n) ==
    LET occ == MonthOccurrences(year, month, weekday)
    IN  IF Cardinality(occ) < n THEN None
        ELSE Some(DateTime(year, month,
                           CHOOSE d \in occ : Cardinality({e \in occ : e <= d}) = n,
                           time))

\* the n-th occurrence counted from the last day of the month, if there is one
NthFromEnd(time, year, month, weekday, n) ==
    LET occ == MonthOccurrences(year, month, weekday)
    IN  IF Cardinality(occ) < n THEN None
        ELSE Some(DateTime(year, month,
                           CHOOSE d \in occ : Cardinality({e \in occ : e >= d}) = n,
                           time))

\* the month k months after a month
MonthAfter(year, month, k) ==
    [year |-> year + ((month - 1 + k) \div 12), month |-> ((month - 1 + k) % 12) + 1]

(***************************************************************************)
(* C4 as claimed: for rule kind "scheduled" with an ordinal counted from   *)
(* the start of the month, a month that lacks the occurrence is passed     *)
(* over: the search does not end on such a month and the refresh ends with *)
(* the due date it found, not with an error.                               *)
(***************************************************************************)
C4_MissingOccurrenceIsPassedOver ==
    (Refreshed /\ rule.type = "scheduled" /\ rule.schedule \in 1..5)
    => /\ err = "none"
       /\ nth_call.result # None
       /\ due_date = Some(Val(nth_call.result) + rule.offset * HoursPerDay)

(***************************************************************************)
(* C5 as claimed: get_nth_weekday_of_month with a negative ordinal returns *)
(* the occurrence counted backward from the end of the month.              *)
(***************************************************************************)
C5_NegativeOrdinalCountsFromEnd ==
    (nth_call.done /\ nth_call.nth < 0)
    => nth_call.result = NthFromEnd(nth_call.time, nth_call.year, nth_call.month,
                                    nth_call.weekday, -nth_call.nth)

(***************************************************************************)
(* C6: get_nth_weekday_of_month with an ordinal n in 1..5 returns the n-th *)
(* date of the month, counted from the 1st, that falls on the weekday, at  *)
(* the given time of day; it returns None exactly when the month has fewer *)
(* than n such dates; a date returned lies in the month asked for.         *)
(***************************************************************************)
C6_PositiveOrdinalCountsFromStart ==
    (nth_call.done /\ nth_call.nth \in 1..5)
    => /\ nth_call.result = NthFromStart(nth_call.time, nth_call.year, nth_call.month,
                                         nth_call.weekday, nth_call.nth)
       /\ (nth_call.result = None)
              = (Cardinality(MonthOccurrences(nth_call.year, nth_call.month,
                                              nth_call.weekday)) < nth_call.nth)
       /\ nth_call.result # None
              => /\ YearOf(Val(nth_call.result)) = nth_call.year
                 /\ MonthOf(Val(nth_call.result)) = nth_call.month
                 /\ TimeOf(Val(nth_call.result)) = nth_call.time

\* a fifth occurrence that exists: the fifth Thursday of February 2024
C6_Witness ==
    /\ nth_call.done
    /\ nth_call.nth = 5
    /\ nth_call.year = 2024
    /\ nth_call.month = 2
    /\ nth_call.result # None
    /\ DayOf(Val(nth_call.result)) = 29

(***************************************************************************)
(* C7: for rule kind "scheduled" with ordinal in 1..4 and offset 0, a      *)
(* refresh yields the occurrence of the first month, counted from the      *)
(* month of last_completed and passing from December to January of the     *)
(* next year, whose occurrence at start_date's time of day is strictly     *)
(* after the clock; the due date is never at or before the clock.          *)
(***************************************************************************)
\* the months a search from the month of one instant to past another can visit
MonthIndexes(from, to) ==
    0..((IF to > from THEN (to - from) \div (28 * HoursPerDay) ELSE 0) + 2)

ScheduledOccurrence(k) ==
    NthFromStart(TimeOf(start_date),
                 MonthAfter(YearOf(last_completed), MonthOf(last_completed), k).year,
                 MonthAfter(YearOf(last_completed), MonthOf(last_completed), k).month,
                 rule.schedule_day, rule.schedule)

C7_ScheduledDueIsFirstOccurrenceAfterNow ==
    (Refreshed /\ rule.type = "scheduled" /\ rule.schedule \in 1..4 /\ rule.offset = 0)
    => /\ err = "none"
       /\ due_date # None
       /\ Val(due_date) > Val(last_updated)
       /\ \E k \in MonthIndexes(last_completed, Val(last_updated)) :
             /\ due_date = ScheduledOccurrence(k)
             /\ \A j \in 0..(k - 1) :
                    Val(ScheduledOccurrence(j)) <= Val(last_updated)

\* a search that starts in December and ends in the next year
C7_Witness ==
    /\ Refreshed
    /\ rule.type = "scheduled"
    /\ rule.schedule \in 1..4
    /\ rule.offset = 0
    /\ err = "none"
    /\ MonthOf(last_completed) = 12
    /\ due_date # None
    /\ YearOf(Val(due_date)) = YearOf(last_completed) + 1

(***************************************************************************)
(* C8: after a refresh that resolved a due date, days is the whole days,   *)
(* rounded down, of due_date - last_updated, overdue holds exactly when    *)
(* days < 0, and overdue_days is max(0, -days).                            *)
(***************************************************************************)
FloorDays(h) ==
    CHOOSE d \in -(Abs(h) \div HoursPerDay + 1)..(Abs(h) \div HoursPerDay + 1) :
        d * HoursPerDay <= h /\ h < (d + 1) * HoursPerDay

C8_DerivedFieldsConsistent ==
    (Refreshed /\ err = "none" /\ due_date # None)
    => /\ days = Some(FloorDays(Val(due_date) - Val(last_updated)))
       /\ overdue = (Val(days) < 0)
       /\ overdue_days = Some(IF Val(days) < 0 THEN -Val(days) ELSE 0)

\* a due date equal to the clock of the refresh
C8_Witness ==
    /\ Refreshed
    /\ err = "none"
    /\ due_date # None
    /\ due_date = last_updated
    /\ days = Some(0)
    /\ overdue = FALSE
    /\ overdue_days = Some(0)

(***************************************************************************)
(* C9 as claimed: a refresh that raises leaves every field of the task as  *)
(* it was.                                                                 *)
(***************************************************************************)
C9_FailedRefreshChangesNothing ==
    [][ (update_state /\ err' # "none") => UNCHANGED task_vars ]_vars

(***************************************************************************)
(* C10 as claimed: restoration puts each stored attribute back into the    *)
(* field of its name, and a refresh right after the restoration, at the    *)
(* clock of the refresh that produced the stored state, yields the stored  *)
(* due date.                                                               *)
(***************************************************************************)
C10_RoundTripKeepsDueDate ==
    /\ [][ add_with_stored_state
           => /\ Some(IsoFormat(last_completed')) = Val(stored').last_completed
              /\ Some(IsoFormat(start_date')) = Val(stored').start_date
              /\ due_date' # None
              /\ Some(IsoFormat(Val(due_date'))) = Val(stored').due_date
         ]_vars
    /\ [][ ( /\ update_state
             /\ op = "async_added_to_hass"
             /\ stored # None
             /\ Val(stored).last_updated = Some(IsoFormat(now)) )
           => /\ err' = "none"
              /\ due_date' # None
              /\ Some(IsoFormat(Val(due_date'))) = Val(stored).due_date
         ]_vars

(***************************************************************************)
(* C11 as claimed: for every rule kind a refresh leaves start_date and     *)
(* last_completed as they were.                                            *)
(***************************************************************************)
C11_RefreshKeepsAnchorAndCompletion ==
    [][ update_state
        => (start_date' = start_date /\ last_completed' = last_completed) ]_vars

(***************************************************************************)
(* C11 as amended: a refresh never changes last_completed or the rule; it  *)
(* leaves start_date as it was for every rule kind but "every"; for kind   *)
(* "every" it leaves start_date as it was when last_completed is not after *)
(* it, and otherwise moves it forward by whole periods to the first        *)
(* element not before last_completed of the sequence start_date,           *)
(* start_date + period, ... (only with a recognized frequency unit).       *)
(***************************************************************************)
C11_RefreshOnlyAdvancesEveryAnchor ==
    [][ update_state
        => /\ last_completed' = last_completed
           /\ rule' = rule
           /\ rule.type # "every" => start_date' = start_date
           /\ (rule.type = "every" /\ last_completed <= start_date)
                  => start_date' = start_date
           /\ (rule.type = "every" /\ start_date' # start_date)
                  => /\ rule.frequency \in FREQUENCY_OPTIONS
                     /\ \E k \in AnchorIndexes(start_date, last_completed,
                                               rule.frequency) \ {0} :
                           /\ start_date' =
                                  AnchorAt(start_date, rule.frequency, rule.period, k)
                           /\ start_date' >= last_completed
                           /\ AnchorAt(start_date, rule.frequency, rule.period, k - 1)
                                  < last_completed
      ]_vars

\* a refresh that moved a monthly anchor forward past a completion
C11_Witness ==
    /\ Refreshed
    /\ err = "none"
    /\ rule.type = "every"
    /\ rule.frequency = "months"
    /\ restarts = 0
    /\ last_completed > rule.start_date
    /\ start_date > rule.start_date
    /\ start_date >= last_completed

(***************************************************************************)
(* C12: complete_task sets last_completed to the clock and changes no      *)
(* other field: start_date, last_updated, due_date, days, overdue,         *)
(* overdue_days and the state stay as they were.                           *)
(***************************************************************************)
C12_CompleteOnlySetsLastCompleted ==
    [][ complete_task
        => /\ last_completed' = now
           /\ UNCHANGED << start_date, last_updated, due_date, days, overdue,
                           overdue_days, attr_state, rule >>
      ]_vars

\* a completion after the due date of the last refresh has passed: the derived
\* fields still say the task is not overdue
C12_Witness ==
    /\ op = "complete_task"
    /\ last_completed = now
    /\ last_updated # None
    /\ Val(last_updated) < now
    /\ due_date # None
    /\ Val(due_date) + HoursPerDay < now
    /\ overdue = FALSE
    /\ start_date = rule.start_date

(***************************************************************************)
(* C13 as claimed: for every rule kind a refresh with a frequency unit     *)
(* outside hours, days, weeks, months, years raises an error and produces  *)
(* no due date.                                                            *)
(***************************************************************************)
C13_UnknownUnitAlwaysRaises ==
    [][ (update_state /\ rule.frequency \notin FREQUENCY_OPTIONS)
        => (err' # "none" /\ due_date' = due_date) ]_vars

(***************************************************************************)
(* C14 as claimed: a refresh with a rule kind outside after, every,        *)
(* scheduled, or with ordinal 0 under kind scheduled, raises an error and  *)
(* produces no due date.                                                   *)
(***************************************************************************)
C14_MalformedRuleRaises ==
    [][ ( /\ update_state
          /\ \/ rule.type \notin TYPE_OPTIONS
             \/ (rule.type = "scheduled" /\ rule.schedule = InvalidSchedule) )
        => (err' # "none" /\ due_date' = due_date) ]_vars

(***************************************************************************)
(* C15 as claimed: when the search for a due date ends without one, the    *)
(* refresh raises nothing and leaves last_updated at the clock, due_date   *)
(* and days empty, overdue false and overdue_days empty.                   *)
(***************************************************************************)
C15_UnresolvedDueDateClearsFields ==
    [][ ( /\ update_state
          /\ rule.type = "scheduled"
          /\ nth_call'.done
          /\ nth_call'.result = None )
        => /\ err' = "none"
           /\ last_updated' = Some(now)
           /\ due_date' = None
           /\ days' = None
           /\ overdue' = FALSE
           /\ overdue_days' = None
      ]_vars

(***************************************************************************)
(* C16: for every valid rule, a refresh that directly follows a refresh at *)
(* the same clock ends as the first did, with the same due date and, for   *)
(* kind "every", the same anchor.                                          *)
(***************************************************************************)
ValidRule ==
    /\ rule.type \in TYPE_OPTIONS
    /\ rule.frequency \in FREQUENCY_OPTIONS
    /\ rule.period >= 1
    /\ rule.schedule \in SCHEDULE_OPTIONS

C16_RepeatedRefreshSameResult ==
    [][ ( /\ update_state
          /\ op = "update_state"
          /\ last_updated = Some(now)
          /\ ValidRule )
        => /\ err' = err
           /\ due_date' = due_date
           /\ start_date' = start_date
           /\ days' = days
      ]_vars

\* a second refresh of an "every" task whose anchor the first refresh moved
C16_Witness ==
    /\ repeated
    /\ Refreshed
    /\ err = "none"
    /\ ValidRule
    /\ rule.type = "every"
    /\ restarts = 0
    /\ start_date > rule.start_date
    /\ due_date # None
    /\ last_updated = Some(now)

(***************************************************************************)
(* C18: a task is stale (last_updated is None) when constructed and right  *)
(* after a restoration; last_updated goes from None to a value only by a   *)
(* refresh, which sets it to the clock; complete_task never changes it.    *)
(***************************************************************************)
C18_FreshnessProtocol ==
    /\ []((TaskExists /\ op \in {"init", "async_added_to_hass"})
          => last_updated = None)
    /\ [][ (last_updated = None /\ last_updated' # None)
           => (op' = "update_state" /\ last_updated' = Some(now)) ]_vars
    /\ [][ complete_task => last_updated' = last_updated ]_vars

\* a task refreshed through the service while it waited for its stored state,
\* then restored from a state stored by a refresh, then completed: still stale
C18_Witness ==
    /\ op = "complete_task"
    /\ pc = "added"
    /\ stored # None
    /\ Val(stored).last_updated # None
    /\ days # None
    /\ attr_state = Val(stored).state
    /\ last_updated = None

(***************************************************************************)
(* C19: for every rule kind, a refresh ends as the refresh of the same     *)
(* task with offset 0 would (same error, same anchor, same occurrence      *)
(* found), and its due date is that refresh's due date plus offset days.   *)
(***************************************************************************)
ShiftOfBase(base) ==
    /\ err' = base.raised
    /\ start_date' = base.start_date
    /\ base.call.done => nth_call' = base.call
    /\ base.raised = "none"
           => due_date' = Some(Val(base.value) + rule.offset * HoursPerDay)

C19_OffsetIsFlatShift ==
    [][ update_state
        => ShiftOfBase(get_next_due_date([Self EXCEPT !.offset = 0], now)) ]_vars

\* a negative offset that puts the due date at or before the clock: the
\* occurrence found is the one after the clock all the same
C19_Witness ==
    /\ Refreshed
    /\ err = "none"
    /\ rule.type = "scheduled"
    /\ rule.offset < 0
    /\ due_date # None
    /\ Val(due_date) <= Val(last_updated)
    /\ nth_call.result = Some(Val(due_date) - rule.offset * HoursPerDay)
    /\ Val(nth_call.result) > Val(last_updated)

(***************************************************************************)
(* C20 as claimed: handling the "complete" service for the registered task *)
(* sets last_completed to the clock and refreshes the task, so that the    *)
(* due date is the one computed from the new completion time (stated for   *)
(* kind "after" with a recognized unit, where that due date is             *)
(* clock + period + offset).                                               *)
(***************************************************************************)
C20_CompleteServiceCompletesAndRefreshes ==
    [][ ( /\ handle_complete_task(TaskEntityId)
          /\ TaskEntityId \in registry
          /\ rule.type = "after"
          /\ rule.frequency \in FREQUENCY_OPTIONS )
        => /\ err' = "none"
           /\ last_completed' = now
           /\ last_updated' = Some(now)
           /\ due_date' = Some(PeriodLater(now, rule.frequency, rule.period)
                               + rule.offset * HoursPerDay)
      ]_vars

(***************************************************************************)
(* C17: for every valid rule (period at least 1, ordinal among 1..5 and    *)
(* -1..-4), every last_completed and every clock, get_next_due_date ends,  *)
(* with a result or an error: the "every" loop and the "scheduled" month   *)
(* search both stop after finitely many passes.                            *)
(***************************************************************************)
C17_RefreshTerminates == ValidRule => <>(op = "returned")

\* a month search that ended after it passed from December into the next year,
\* and an "every" loop that ended after it moved the anchor
C17_Witness ==
    /\ op = "returned"
    /\ ValidRule
    /\ \/ /\ rule.type = "scheduled"
          /\ nth_call.done
          /\ nth_call.year > YearOf(last_completed)
          /\ nth_call.month > 1
       \/ /\ rule.type = "every"
          /\ start_date >= rule.start_date + 3 * HoursPerDay
          /\ rule.frequency \in {"hours", "days"}

(***************************************************************************)
(* C21 as claimed: Task(config_entry) with a rule in its options and no    *)
(* stored state to restore gives a task with last_completed = start_date,  *)
(* last_updated and due_date empty, overdue false and overdue_days empty,  *)
(* and the first refresh of such a task under a valid rule raises nothing. *)
(***************************************************************************)
C21_FreshTaskStartsCleanAndRefreshes ==
    /\ [][ (Task__init__ /\ rule \in RuleOptions)
           => /\ err' = "none"
              /\ pc' = "constructed"
              /\ last_completed' = start_date'
              /\ start_date' = rule.start_date
              /\ last_updated' = None
              /\ due_date' = None
              /\ overdue' = FALSE
              /\ overdue_days' = None
         ]_vars
    /\ [][ (update_state /\ op = "init" /\ ValidRule) => err' = "none" ]_vars

(***************************************************************************)
(* C22: for rule kind "every", a completion or a refresh never moves       *)
(* start_date back, and after each refresh that raised nothing, as long as *)
(* the task is only completed and refreshed, start_date is not before      *)
(* last_completed and due_date less the offset is start_date plus one      *)
(* period, which is after last_completed.                                  *)
(***************************************************************************)
C22_AnchorMonotoneAndDueAfterCompletion ==
    /\ [][ ((complete_task \/ update_state) /\ rule.type = "every")
           => start_date' >= start_date ]_vars
    /\ []( (Refreshed /\ err = "none" /\ rule.type = "every" /\ ~Restored)
           => /\ start_date >= last_completed
              /\ due_date # None
              /\ Val(due_date) - rule.offset * HoursPerDay
                     = PeriodLater(start_date, rule.frequency, rule.period)
              /\ Val(due_date) - rule.offset * HoursPerDay > last_completed )

\* a refresh after a completion several periods past the anchor, with a
\* negative offset: the anchor has caught up and the due date is one period
\* and the offset later
C22_Witness ==
    /\ Refreshed
    /\ err = "none"
    /\ rule.type = "every"
    /\ rule.frequency = "weeks"
    /\ rule.period = 1
    /\ rule.offset < 0
    /\ restarts = 0
    /\ last_completed >= rule.start_date + 3 * 7 * HoursPerDay
    /\ start_date > last_completed
    /\ due_date = Some(start_date + 7 * HoursPerDay + rule.offset * HoursPerDay)

(***************************************************************************)
(* C23: the task is registered from the moment async_added_to_hass puts it *)
(* into the registry until it is removed, and nothing else changes the     *)
(* registry while the host runs; the update_state service refreshes the    *)
(* task, and the complete service finds it, exactly while it is            *)
(* registered; a call of either service that names an entity id not        *)
(* registered changes no field of the task and raises nothing.             *)
(***************************************************************************)
ServiceCall(entity_id) ==
    handle_update_state(entity_id) \/ handle_complete_task(entity_id)

C23_ServicesReachExactlyRegisteredTask ==
    /\ [][ async_added_to_hass => TaskEntityId \in registry' ]_vars
    /\ [][ async_will_remove_from_hass => TaskEntityId \notin registry' ]_vars
    /\ [][ (registry' # registry /\ restarts' = restarts)
           => (async_added_to_hass \/ async_will_remove_from_hass) ]_vars
    /\ [][ \A entity_id \in EntityIds :
             (handle_update_state(entity_id) /\ entity_id \in registry)
             => (op' = "update_state" /\ last_updated' = Some(now)) ]_vars
    /\ [][ \A entity_id \in EntityIds :
             (handle_complete_task(entity_id) /\ entity_id \in registry)
             => ~(err' = "none" /\ UNCHANGED task_vars) ]_vars
    /\ [][ \A entity_id \in EntityIds :
             (ServiceCall(entity_id) /\ entity_id \notin registry)
             => (err' = "none" /\ UNCHANGED << task_vars, registry >>) ]_vars

\* the update_state service called for the task after the task, refreshed
\* before, was removed: the call ended without an error and the fields are
\* those of the refresh
C23_Witness ==
    /\ op = "handle_update_state"
    /\ err = "none"
    /\ TaskEntityId \notin registry
    /\ last_updated # None
    /\ Val(last_updated) < now
    /\ due_date # None
    /\ days = Some(days_between(Val(due_date), Val(last_updated)))

====
